---- MODULE Spec2Model ----
(***************************************************************************)
(* A model of the Fwog repository: the dynamic Base trading plugin         *)
(* (fetchTokensOnBase, calculateVolatility, analyzeTokens, executeTrade    *)
(* and the find_and_trade_base_tokens tool) and the AutoClient lifecycle   *)
(* wrapper (packages/client-auto/src/index.ts).                            *)
(*                                                                         *)
(* JavaScript numbers are modelled as the doubles they are: a finite       *)
(* number is sign * m * 2^e with m of at most 53 binary digits, and every  *)
(* operation rounds its exact result to the nearest double, ties to even.  *)
(* NaN, +Infinity, -Infinity and undefined are values of their own.        *)
(***************************************************************************)
EXTENDS Integers, Sequences, FiniteSets, TLC

\* ------------------------------------------------------------------ bounds

\* Longest historicalPrices array the volatility specification draws.
MaxPrices == 3

\* Longest token-list payload the catalog specification draws.
MaxListed == 2

\* Half seconds the clock may advance.
MaxTicks == 3

\* Most stop() calls a host makes on one client.
MaxStops == 2

\* Longest token list the analysis specification draws.
MaxTokens == 3

VARIABLES
    \* calculateVolatility applied on its own: the argument and the value returned
    volIn, volOut,
    \* the remote world: what the token-list request and each token's metrics
    \* request answer, and the wall clock in milliseconds (Date.now())
    catalogResponse, metricsResponse, quoteResponse, now,
    \* fetchTokensOnBase: position, value returned, number of fetch() calls made
    catPc, catResult, catFetches,
    \* analyzeTokens: position, the tokens argument, one task per token (the
    \* mapper's position and the value it resolved to), the value returned
    anPc, anTokens, anTask, anResult,
    \* executeTrade: position, the token and amount arguments, the locals
    \* (deadline, the Date.now() it was computed from, quote.expectedOutput,
    \* minimumAmountOut), the value returned or error raised, and every
    \* router.swapExactETHForTokens call made so far
    trPc, trToken, trAmount, trLocals, trOutcome, swaps,
    \* the find_and_trade_base_tokens tool: position, amount, the profitable
    \* tokens, the loop's index into them, the results pushed so far, and the
    \* text returned or error raised
    toolPc, toolAmount, toolProfitable, toolIdx, toolResults, toolOutcome,
    \* AutoClient: position of the initialization the constructor started, the
    \* stage that failed, this.plugin, whether new AutoClient(runtime) returned
    \* or raised, how AutoClientInterface.start's promise and the promise of
    \* this.initialize() settled, the stop() calls made, and every call made on
    \* the plugin with its outcome
    lcPc, lcError, lcPlugin, lcCtor, lcStartResult, lcInitPromise, lcStops, lcTrace

volVars == <<volIn, volOut>>
envVars == <<catalogResponse, metricsResponse, quoteResponse, now>>
catVars == <<catPc, catResult, catFetches>>
anVars == <<anPc, anTokens, anTask, anResult>>
trVars == <<trPc, trToken, trAmount, trLocals, trOutcome, swaps>>
toolVars == <<toolPc, toolAmount, toolProfitable, toolIdx, toolResults, toolOutcome>>
lcVars == <<lcPc, lcError, lcPlugin, lcCtor, lcStartResult, lcInitPromise, lcStops, lcTrace>>
vars == <<volVars, envVars, catVars, anVars, trVars, toolVars, lcVars>>

\* ------------------------------------------------- JavaScript number model

Abs(x) == IF x < 0 THEN -x ELSE x
Max(a, b) == IF a >= b THEN a ELSE b
Min(a, b) == IF a <= b THEN a ELSE b

\* A natural number of any size: its digits in base 2^15, lowest first, the
\* highest one not 0; zero has no digits.
Base == 2 ^ 15

Digit(a, i) == IF i >= 1 /\ i <= Len(a) THEN a[i] ELSE 0

\* The digits of a without the zeros at the top.
Trim(a) ==
    LET used == {i \in 1..Len(a) : a[i] # 0}
    IN  IF used = {} THEN <<>>
        ELSE SubSeq(a, 1, CHOOSE i \in used : \A j \in used : j <= i)

\* The natural number i, 0 <= i < 2^31.
BnOfInt(i) == Trim(<< i % Base, (i \div Base) % Base, i \div (Base * Base) >>)

\* The value of a natural number of at most two digits.
BnToInt(a) == Digit(a, 1) + Base * Digit(a, 2)

\* -1, 0 or 1 as a < b, a = b or a > b.
BnCmp(a, b) ==
    LET differ == {i \in 1..Max(Len(a), Len(b)) : Digit(a, i) # Digit(b, i)}
        top == CHOOSE i \in differ : \A j \in differ : j <= i
    IN  IF differ = {} THEN 0
        ELSE IF Digit(a, top) > Digit(b, top) THEN 1 ELSE -1

\* a + b: digit i takes a carry when a lower digit overflows and every digit
\* between passes the carry on.
BnAdd(a, b) ==
    LET At(i) == Digit(a, i) + Digit(b, i)
        Carry(i) ==
            IF \E j \in 1..(i - 1) :
                  At(j) >= Base /\ \A k \in (j + 1)..(i - 1) : At(k) = Base - 1
            THEN 1 ELSE 0
    IN  Trim([i \in 1..(Max(Len(a), Len(b)) + 1) |-> (At(i) + Carry(i)) % Base])

\* a - b for a >= b, with borrows found the way the carries of a + b are.
BnSub(a, b) ==
    LET Borrow(i) ==
            IF \E j \in 1..(i - 1) :
                  a[j] < Digit(b, j) /\ \A k \in (j + 1)..(i - 1) : a[k] = Digit(b, k)
            THEN 1 ELSE 0
    IN  Trim([i \in 1..Len(a) |-> (a[i] - Digit(b, i) - Borrow(i) + Base) % Base])

\* The number with the digits w, each below 2^30, written with digits below
\* the base.
Carried(w) ==
    BnAdd([i \in 1..Len(w) |-> w[i] % Base],
          [i \in 1..(Len(w) + 1) |-> IF i = 1 THEN 0 ELSE w[i - 1] \div Base])

\* a * d for one digit d.
BnMulDigit(a, d) == Carried([i \in 1..Len(a) |-> a[i] * d])

\* a * b for a of at most 4 digits: column k sums the low halves of the digit
\* products a[i] * b[k + 1 - i] and the high halves of those of column k - 1.
BnMul(a, b) ==
    LET Lo(i, k) == (Digit(a, i) * Digit(b, k + 1 - i)) % Base
        Hi(i, k) == (Digit(a, i) * Digit(b, k + 1 - i)) \div Base
        Column(k) ==
            Lo(1, k) + Lo(2, k) + Lo(3, k) + Lo(4, k)
            + Hi(1, k - 1) + Hi(2, k - 1) + Hi(3, k - 1) + Hi(4, k - 1)
    IN  Carried([k \in 1..(Len(a) + Len(b)) |-> Column(k)])

\* a * 2^k
BnShl(a, k) ==
    LET whole == k \div 15
        part == 2 ^ (k % 15)
        rest == 2 ^ (15 - (k % 15))
    IN  Trim([i \in 1..(Len(a) + whole + 1) |->
                ((Digit(a, i - whole) * part) % Base) + (Digit(a, i - whole - 1) \div rest)])

\* a \div 2^k
BnShr(a, k) ==
    LET whole == k \div 15
        part == 2 ^ (k % 15)
        rest == 2 ^ (15 - (k % 15))
    IN  Trim([i \in 1..(Len(a) - whole) |->
                (Digit(a, i + whole) \div part) + ((Digit(a, i + whole + 1) % part) * rest)])

\* The number of binary digits of a.
BnBitLen(a) ==
    IF a = <<>> THEN 0
    ELSE 15 * (Len(a) - 1) + CHOOSE t \in 1..15 : a[Len(a)] \div (2 ^ (t - 1)) = 1

\* The number of zeros at the low end of the binary digits of a # 0.
BnLowZeros(a) ==
    LET low == CHOOSE i \in 1..Len(a) : a[i] # 0 /\ \A j \in 1..(i - 1) : a[j] = 0
    IN  15 * (low - 1) + CHOOSE t \in 0..14 : a[low] % (2 ^ (t + 1)) = 2 ^ t

BnIsOdd(a) == a # <<>> /\ a[1] % 2 = 1

\* Long division by b, b with its top digit at least 2^14, takes a digit at
\* a time: from t < b * 2^15 the largest d with b * d <= t. The quotient of
\* the top two digits of t by the top digit of b is d, d + 1 or d + 2.
DivGuess(t, b) ==
    Min(Base - 1, (Digit(t, Len(b) + 1) * Base + Digit(t, Len(b))) \div b[Len(b)])

DivDigit(t, b, guess) ==
    IF BnCmp(BnMulDigit(b, guess), t) <= 0 THEN guess
    ELSE IF BnCmp(BnMulDigit(b, guess - 1), t) <= 0 THEN guess - 1
    ELSE guess - 2

\* The digit d and what is left of t.
DivTaken(t, b, d) == [d |-> d, r |-> BnSub(t, BnMulDigit(b, d))]

DivStep(t, b) == DivTaken(t, b, DivDigit(t, b, DivGuess(t, b)))

\* A step's digit put below the quotient so far.
DivPut(step, q) == [q |-> <<step.d>> \o q, r |-> step.r]

\* The next digit of a taken down below what the higher digits left.
DivDown(digit, b, above) ==
    IF above.r = <<>> /\ digit = 0 THEN [q |-> <<0>> \o above.q, r |-> <<>>]
    ELSE DivPut(DivStep(Trim(<<digit>> \o above.r), b), above.q)

\* Long division by b of the digits i and above of a: the quotient, and what
\* is left. Fewer than Len(b) digits are less than b.
RECURSIVE BnDivModFrom(_, _, _)
BnDivModFrom(a, b, i) ==
    IF i > Len(a) - Len(b) + 1 THEN [q |-> <<>>, r |-> SubSeq(a, Max(i, 1), Len(a))]
    ELSE DivDown(a[i], b, BnDivModFrom(a, b, i + 1))

\* A natural number found by division or root taking, and whether something
\* was left.
Found(n, left) == [n |-> Trim(n), inexact |-> left # <<>>]

DivFound(qr) == Found(qr.q, qr.r)

\* a \div b, and whether a % b # 0, for b > 0. Both are first scaled to bring
\* the top digit of b to 2^14 or more.
BnDivMod(a, b) ==
    LET scale == 15 * Len(b) - BnBitLen(b)
    IN  DivFound(BnDivModFrom(BnShl(a, scale), BnShl(b, scale), 1))

\* The largest x in 0..31 with (from + x * by)^2 <= t, for from^2 <= t < 2^30.
RootPart(t, from, by) ==
    CHOOSE x \in 0..31 :
        /\ (from + x * by) * (from + x * by) <= t
        /\ x = 31 \/ (from + (x + 1) * by) * (from + (x + 1) * by) > t

\* The largest s with s * s <= t, for 0 <= t < 2^30, five binary digits at a time.
IntRoot(t) ==
    LET high == 1024 * RootPart(t, 0, 1024)
        mid == high + 32 * RootPart(t, high, 32)
    IN  mid + RootPart(t, mid, 1)

\* The long-hand square root takes a digit at a time: with p the root so
\* far, its top digit at least 2^14, and t what is left with the next two
\* digits taken down, the largest d with (2 * p * 2^15 + d) * d <= t. The
\* quotient of the top two digits of t \div 2 by the top digit of p is at
\* most 3 above d.
RootGuess(t, p) ==
    LET half == BnShr(t, 1)
    IN  Min(Base - 1,
            (Digit(half, Len(p) + 2) * Base + Digit(half, Len(p) + 1)) \div p[Len(p)])

RootTaken(p, d) == BnMulDigit(BnAdd(BnShl(p, 16), BnOfInt(d)), d)

RootDigit(t, p, guess) ==
    IF BnCmp(RootTaken(p, guess), t) <= 0 THEN guess
    ELSE IF BnCmp(RootTaken(p, guess - 1), t) <= 0 THEN guess - 1
    ELSE IF BnCmp(RootTaken(p, guess - 2), t) <= 0 THEN guess - 2
    ELSE guess - 3

\* The digit d and what is left of t.
RootLeft(t, p, d) == [d |-> d, r |-> BnSub(t, RootTaken(p, d))]

RootStep(t, p) == RootLeft(t, p, RootDigit(t, p, RootGuess(t, p)))

\* A step's digit put below the root so far.
RootPut(step, root) == [root |-> <<step.d>> \o root, r |-> step.r]

\* The next two digits of a taken down below what the higher digits left.
RootDown(low, high, above) ==
    IF above.r = <<>> /\ high = 0 /\ low = 0 THEN [root |-> <<0>> \o above.root, r |-> <<>>]
    ELSE RootPut(RootStep(Trim(<<low, high>> \o above.r), above.root), above.root)

\* The root of the two top digits, and what is left of them.
RootTop(top) == [root |-> <<IntRoot(top)>>, r |-> BnOfInt(top - IntRoot(top) * IntRoot(top))]

\* The long-hand square root of the digits 2i - 1 and above of a, a of 2n
\* digits whose top two are 2^28 or more: the root, and what is left.
RECURSIVE BnRootFrom(_, _)
BnRootFrom(a, i) ==
    IF 2 * i = Len(a) THEN RootTop(a[2 * i] * Base + a[2 * i - 1])
    ELSE RootDown(a[2 * i - 1], a[2 * i], BnRootFrom(a, i + 1))

RootFound(all) == Found(all.root, all.r)

\* The largest r with r * r <= a, and whether r * r # a.
BnRoot(a) == RootFound(BnRootFrom(a, 1))

\* A number is a double: s * m * 2^e with sign s, an odd natural number m of
\* at most 53 binary digits and -1074 <= e, below 2^1024 in size; zero has
\* m = 0 and keeps its sign. NaN, the infinities and undefined are values of
\* their own.
Double(s, m, e) == [k |-> "fin", s |-> s, m |-> m, e |-> e]
Zero(s) == Double(s, <<>>, 0)
NaN == [k |-> "nan", s |-> 1, m |-> <<>>, e |-> 0]
PosInf == [k |-> "inf", s |-> 1, m |-> <<>>, e |-> 0]
NegInf == [k |-> "inf", s |-> -1, m |-> <<>>, e |-> 0]
Infinity(s) == IF s > 0 THEN PosInf ELSE NegInf
Undefined == [k |-> "undef", s |-> 1, m |-> <<>>, e |-> 0]

IsZero(x) == x.k = "fin" /\ x.m = <<>>

\* Whether a is a finite number other than 0.
Ordinary(a) == a.k = "fin" /\ a.m # <<>>

\* s * n * 2^e for a natural number n of at most 53 binary digits, with the
\* factors of two moved from n to the exponent.
Odd(s, n, e) ==
    IF n = <<>> THEN Zero(s)
    ELSE IF n[1] % 2 = 1 THEN Double(s, n, e)
    ELSE Double(s, BnShr(n, BnLowZeros(n)), e + BnLowZeros(n))

\* s * n * 2^e, or the infinity it overflows to.
Finite(s, n, e) == IF BnBitLen(n) + e > 1024 THEN Infinity(s) ELSE Odd(s, n, e)

\* q, or q + 1 when what was cut off q is above a half (half > 0), or is a
\* half (half = 0) with more below it (sticky) or with q odd.
Bumped(q, half, sticky) ==
    IF half > 0 \/ (half = 0 /\ (sticky \/ BnIsOdd(q))) THEN BnAdd(q, <<1>>) ELSE q

\* n without its lowest shift binary digits, rounded to nearest, ties to even.
Kept(n, shift, sticky) ==
    IF shift <= 0 THEN n
    ELSE Bumped(BnShr(n, shift),
                BnCmp(BnSub(n, BnShl(BnShr(n, shift), shift)), BnShl(<<1>>, shift - 1)),
                sticky)

\* The double nearest to s * (n + f) * 2^e, ties to the even one, for a
\* natural number n > 0 and a fraction 0 <= f < 1 that is not 0 iff sticky:
\* 53 binary digits are kept, fewer below 2^-1022.
RoundedBy(s, n, e, sticky, shift) == Finite(s, Kept(n, shift, sticky), e + Max(shift, 0))

Rounded(s, n, e, sticky) == RoundedBy(s, n, e, sticky, Max(BnBitLen(n) - 53, -1074 - e))

\* The same for a number found by division or root taking.
RoundedFound(s, found, e) == Rounded(s, found.n, e, found.inexact)

\* i * 2^e for an integer i, |i| < 2^31, and e far from the ends of the
\* exponent range: no rounding is needed.
Exact(i, e) == Odd(IF i < 0 THEN -1 ELSE 1, BnOfInt(Abs(i)), e)

\* The integer i, |i| < 2^31.
Num(i) == Exact(i, 0)

\* Whether a is a finite number other than 0 with a mantissa of one digit and
\* an exponent far from the ends of the range. What such numbers add or
\* multiply to is found with integers below 2^31 and is exact.
Short(a) == a.k = "fin" /\ Len(a.m) = 1 /\ a.e >= -500 /\ a.e <= 400

\* Whether two short numbers have exponents at most 15 apart.
Near(a, b) == Short(a) /\ Short(b) /\ Abs(a.e - b.e) <= 15

\* a / 2^e as an integer, for a short number a and a.e - 15 <= e <= a.e.
Scaled(a, e) == a.s * a.m[1] * (2 ^ (a.e - e))

\* ToNumber: undefined converts to NaN, a number to itself.
ToNumber(x) == IF x.k = "undef" THEN NaN ELSE x

\* The sizes of two finite numbers other than 0 compared: -1, 0 or 1.
CmpSize(a, b) ==
    LET ta == BnBitLen(a.m) + a.e
        tb == BnBitLen(b.m) + b.e
        lo == Min(a.e, b.e)
    IN  IF ta # tb THEN (IF ta < tb THEN -1 ELSE 1)
        ELSE BnCmp(BnShl(a.m, a.e - lo), BnShl(b.m, b.e - lo))

\* Where a number other than NaN lies: at an infinity, below 0, at 0 or
\* above 0.
Side(x) == IF x.k = "inf" THEN 2 * x.s ELSE IF x.m = <<>> THEN 0 ELSE x.s

\* Two numbers, neither NaN, compared: -1, 0 or 1. The two zeros are equal.
Cmp(a, b) ==
    IF Near(a, b)
    THEN LET d == Scaled(a, Min(a.e, b.e)) - Scaled(b, Min(a.e, b.e))
         IN  IF d < 0 THEN -1 ELSE IF d > 0 THEN 1 ELSE 0
    ELSE IF Side(a) # Side(b) THEN (IF Side(a) < Side(b) THEN -1 ELSE 1)
    ELSE IF a.k = "inf" \/ a.m = <<>> THEN 0
    ELSE a.s * CmpSize(a, b)

\* a + b for a = a.s * na * 2^lo and b = b.s * nb * 2^lo, c comparing na with nb.
AddScaled(a, b, na, nb, lo, c) ==
    IF a.s # b.s /\ c = 0 THEN Zero(1)
    ELSE Rounded(IF a.s = b.s \/ c > 0 THEN a.s ELSE b.s,
                 IF a.s = b.s THEN BnAdd(na, nb)
                 ELSE IF c > 0 THEN BnSub(na, nb) ELSE BnSub(nb, na),
                 lo, FALSE)

AddAt(a, b, na, nb, lo) == AddScaled(a, b, na, nb, lo, BnCmp(na, nb))

\* a + b for finite a and b other than 0. A number more than 2^64 times the
\* other in size is the sum.
AddFinite(a, b) ==
    LET ta == BnBitLen(a.m) + a.e
        tb == BnBitLen(b.m) + b.e
        lo == Min(a.e, b.e)
    IN  IF ta > tb + 64 THEN a
        ELSE IF tb > ta + 64 THEN b
        ELSE AddAt(a, b, BnShl(a.m, a.e - lo), BnShl(b.m, b.e - lo), lo)

\* a + b where a or b is NaN, an infinity or 0.
AddSpecial(a, b) ==
    IF a.k = "nan" \/ b.k = "nan" THEN NaN
    ELSE IF a.k = "inf" /\ b.k = "inf" THEN (IF a.s = b.s THEN a ELSE NaN)
    ELSE IF a.k = "inf" THEN a
    ELSE IF b.k = "inf" THEN b
    ELSE IF a.m = <<>> /\ b.m = <<>> THEN Zero(IF a.s < 0 /\ b.s < 0 THEN -1 ELSE 1)
    ELSE IF a.m = <<>> THEN b
    ELSE a

\* a + b
JsAdd(x, y) ==
    IF Near(x, y)
    THEN Exact(Scaled(x, Min(x.e, y.e)) + Scaled(y, Min(x.e, y.e)), Min(x.e, y.e))
    ELSE IF Ordinary(x) /\ Ordinary(y) THEN AddFinite(x, y)
    ELSE AddSpecial(ToNumber(x), ToNumber(y))

\* -a
JsNeg(x) ==
    LET a == ToNumber(x)
    IN  IF a.k = "nan" THEN NaN ELSE [a EXCEPT !.s = -a.s]

\* a - b
JsSub(x, y) == JsAdd(x, JsNeg(y))

\* a * b where a or b is NaN, an infinity or 0.
MulSpecial(a, b) ==
    IF a.k = "nan" \/ b.k = "nan" THEN NaN
    ELSE IF a.k = "inf" \/ b.k = "inf"
         THEN (IF IsZero(a) \/ IsZero(b) THEN NaN ELSE Infinity(a.s * b.s))
    ELSE Zero(a.s * b.s)

\* a * b
JsMul(x, y) ==
    IF Short(x) /\ Short(y) THEN Exact(x.s * y.s * x.m[1] * y.m[1], x.e + y.e)
    ELSE IF Ordinary(x) /\ Ordinary(y)
    THEN Rounded(x.s * y.s, BnMul(x.m, y.m), x.e + y.e, FALSE)
    ELSE MulSpecial(ToNumber(x), ToNumber(y))

\* a / b where a or b is NaN, an infinity or 0: 0/0 is NaN, x/0 is an
\* infinity, x/Infinity is 0.
DivSpecial(a, b) ==
    IF a.k = "nan" \/ b.k = "nan" THEN NaN
    ELSE IF a.k = "inf" /\ b.k = "inf" THEN NaN
    ELSE IF a.k = "inf" THEN Infinity(a.s * b.s)
    ELSE IF b.k = "inf" THEN Zero(a.s * b.s)
    ELSE IF b.m = <<>> THEN (IF a.m = <<>> THEN NaN ELSE Infinity(a.s * b.s))
    ELSE Zero(a.s * b.s)

\* a / b for finite a and b other than 0: the quotient of the mantissas is
\* taken to 56 binary digits or more before it is rounded.
DivFinite(a, b) ==
    LET up == Max(0, 56 + BnBitLen(b.m) - BnBitLen(a.m))
    IN  RoundedFound(a.s * b.s, BnDivMod(BnShl(a.m, up), b.m), a.e - b.e - up)

\* a / b
JsDiv(x, y) ==
    IF Short(x) /\ Short(y) /\ x.m[1] % y.m[1] = 0
    THEN Exact(x.s * y.s * (x.m[1] \div y.m[1]), x.e - y.e)
    ELSE IF Ordinary(x) /\ Ordinary(y) THEN DivFinite(x, y)
    ELSE DivSpecial(ToNumber(x), ToNumber(y))

\* Math.sqrt(a) for finite a > 0: the mantissa is scaled to 119 or 120
\* binary digits, with an even exponent left, and its root of 60 binary
\* digits is rounded.
SqrtFinite(a) ==
    LET up0 == 119 - BnBitLen(a.m)
        up == IF (a.e - up0) % 2 = 0 THEN up0 ELSE up0 + 1
    IN  RoundedFound(1, BnRoot(BnShl(a.m, up)), (a.e - up) \div 2)

\* Math.sqrt(a)
JsSqrt(x) ==
    LET a == ToNumber(x)
    IN  IF Short(a) /\ a.s > 0 /\ a.e % 2 = 0 /\ IntRoot(a.m[1]) * IntRoot(a.m[1]) = a.m[1]
        THEN Exact(IntRoot(a.m[1]), a.e \div 2)
        ELSE IF Ordinary(a) /\ a.s > 0 THEN SqrtFinite(a)
        ELSE IF a.k = "fin" /\ a.m = <<>> THEN a
        ELSE IF a.k = "inf" /\ a.s > 0 THEN PosInf
        ELSE NaN

\* Math.pow(a, 2)
JsSquare(x) == JsMul(x, x)

\* Math.floor(a)
JsFloor(x) ==
    LET a == ToNumber(x)
    IN  IF a.k # "fin" \/ a.e >= 0 THEN a
        ELSE IF a.s > 0 THEN Odd(1, BnShr(a.m, -a.e), 0)
        ELSE Odd(-1, BnAdd(BnShr(a.m, -a.e), <<1>>), 0)

\* a > b; false whenever an operand is NaN.
JsGt(x, y) ==
    LET a == ToNumber(x)
        b == ToNumber(y)
    IN  a.k # "nan" /\ b.k # "nan" /\ Cmp(a, b) > 0

\* a < b; false whenever an operand is NaN.
JsLt(x, y) ==
    LET a == ToNumber(x)
        b == ToNumber(y)
    IN  a.k # "nan" /\ b.k # "nan" /\ Cmp(a, b) < 0

\* a >= b; false whenever an operand is NaN.
JsGe(x, y) ==
    LET a == ToNumber(x)
        b == ToNumber(y)
    IN  a.k # "nan" /\ b.k # "nan" /\ Cmp(a, b) >= 0

\* The number a decimal literal n/d stands for: the double nearest to n/d.
Dec(n, d) == JsDiv(Num(n), Num(d))

\* Whether a value is truthy: undefined, NaN, 0 and -0 are not.
Truthy(x) == ~(x.k \in {"undef", "nan"} \/ IsZero(x))

\* x || 0
OrZero(x) == IF Truthy(x) THEN x ELSE Num(0)

\* --------------------------------------------------- calculateVolatility

\* returns.reduce((sum, value) => sum + value, 0)
RECURSIVE SumOf(_)
SumOf(s) == IF s = <<>> THEN Num(0) ELSE JsAdd(SumOf(SubSeq(s, 1, Len(s) - 1)), s[Len(s)])

\* The daily returns (p[i] - p[i-1]) / p[i-1], i = 1 .. length-1 (0-based).
DailyReturns(p) ==
    [i \in 1..(Len(p) - 1) |-> JsDiv(JsSub(p[i + 1], p[i]), p[i])]

\* returns.reduce(...) / returns.length
MeanOf(values) == JsDiv(SumOf(values), Num(Len(values)))

\* Math.pow(value - mean, 2) for each value; pow with the exponent 2 is the
\* product of the base with itself.
SquaredFrom(values, mean) ==
    [i \in 1..Len(values) |-> JsSquare(JsSub(values[i], mean))]

\* The population standard deviation of the returns: mean, variance, and its
\* square root.
DeviationOf(returns) == JsSqrt(MeanOf(SquaredFrom(returns, MeanOf(returns))))

\* calculateVolatility(historicalPrices): the population standard deviation of
\* the daily returns, 0 for fewer than two prices.
calculateVolatility(historicalPrices) ==
    IF Len(historicalPrices) < 2 THEN Num(0)
    ELSE DeviationOf(DailyReturns(historicalPrices))

\* A value not yet produced.
NoValue == [k |-> "none", s |-> 1, m |-> <<>>, e |-> 0]

\* Prices the volatility specification draws its arrays from.
PriceValues == {0, 1, 2, 5, 10, 11, 24}

RECURSIVE SeqsUpTo(_, _)
SeqsUpTo(S, n) ==
    IF n = 0 THEN {<<>>}
    ELSE LET shorter == SeqsUpTo(S, n - 1)
         IN  shorter \cup {Append(s, x) : s \in {t \in shorter : Len(t) = n - 1}, x \in S}

\* The call calculateVolatility(volIn) returns.
VolatilityReturns ==
    /\ volOut = NoValue
    /\ volOut' = calculateVolatility(volIn)
    /\ UNCHANGED <<volIn, envVars, catVars, anVars, trVars, toolVars, lcVars>>

\* -------------------------------------------------------- fetchTokensOnBase

UndefinedText == "<undefined>"

\* The default tokens returned in case of API failure.
FallbackTokens ==
    << [symbol |-> "USDC", address |-> "0x833589fCD6eDb6E08f4c7C32D4f71b54bdA02913",
        decimals |-> Num(6), name |-> "USD Coin"],
       [symbol |-> "WETH", address |-> "0x4200000000000000000000000000000000000006",
        decimals |-> Num(18), name |-> "Wrapped Ether"],
       [symbol |-> "BTC", address |-> "0x236aa50979D5f3De3Bd1Eeb40E81137F22ab794b",
        decimals |-> Num(8), name |-> "Bitcoin"],
       [symbol |-> "SOL", address |-> "0x1C6aE197fF4BF7BA96726FB6633cc0A8B0d169C8",
        decimals |-> Num(9), name |-> "Solana"] >>

\* Two tokens a remote list may hold.
TokenA == [symbol |-> "AAA", address |-> "0xA", decimals |-> Num(18), name |-> "Token A"]
TokenB == [symbol |-> "BBB", address |-> "0xB", decimals |-> Num(6), name |-> "Token B"]

\* An element of a JSON array: an object with some of the token fields, null,
\* or a number.
ObjectElem(t) ==
    [kind |-> "object", symbol |-> t.symbol, address |-> t.address,
     decimals |-> t.decimals, name |-> t.name]
BareElem(kind) ==
    [kind |-> kind, symbol |-> UndefinedText, address |-> UndefinedText,
     decimals |-> Undefined, name |-> UndefinedText]
ListElems ==
    { ObjectElem(TokenA), ObjectElem(TokenB),
      [ObjectElem(TokenA) EXCEPT !.decimals = Undefined, !.name = UndefinedText],
      BareElem("object"), BareElem("null"), BareElem("number") }

\* A parsed JSON body: an array of elements, or a value of another shape.
ArrayPayload(items) == [shape |-> "array", items |-> items]
OtherPayload(shape) == [shape |-> shape, items |-> <<>>]

\* What the token-list request can answer.
NetworkError == [kind |-> "networkError", ok |-> FALSE, body |-> "none", payload |-> OtherPayload("null")]
HttpResponse(ok, body, payload) == [kind |-> "response", ok |-> ok, body |-> body, payload |-> payload]

\* tokens.map(token => ({symbol, address, decimals, name})) raises a TypeError:
\* tokens is no array (it has no map), or an element is null.
MapRaises(payload) ==
    \/ payload.shape # "array"
    \/ \E i \in 1..Len(payload.items) : payload.items[i].kind = "null"

\* The mapped list: each element's four fields, undefined where it has none.
MapTokens(payload) ==
    [i \in 1..Len(payload.items) |->
        [symbol |-> payload.items[i].symbol, address |-> payload.items[i].address,
         decimals |-> payload.items[i].decimals, name |-> payload.items[i].name]]

\* await fetch(url) settles: a rejection is caught and the defaults returned,
\* a response that is not ok raises inside the try with the same effect.
CatFetchSettles ==
    /\ catPc = "fetch"
    /\ IF catalogResponse.kind = "networkError" \/ ~catalogResponse.ok
       THEN catPc' = "returned" /\ catResult' = FallbackTokens
       ELSE catPc' = "json" /\ catResult' = catResult
    /\ UNCHANGED <<catFetches, volVars, envVars, anVars, trVars, toolVars, lcVars>>

\* await response.json() settles, then tokens.map runs; any exception is
\* caught and the defaults returned.
CatJsonSettles ==
    /\ catPc = "json"
    /\ catPc' = "returned"
    /\ catResult' =
          IF catalogResponse.body = "unparsable" \/ MapRaises(catalogResponse.payload)
          THEN FallbackTokens
          ELSE MapTokens(catalogResponse.payload)
    /\ UNCHANGED <<catFetches, volVars, envVars, anVars, trVars, toolVars, lcVars>>

\* ------------------------------------------------------------ analyzeTokens

\* What a token's metrics request can answer: a rejected fetch, a body that is
\* no JSON, the JSON value null, or a JSON object with some of the fields.
MetricsFailure(kind) ==
    [kind |-> kind, price |-> Undefined, volume24h |-> Undefined,
     priceChange24h |-> Undefined, liquidityUSD |-> Undefined,
     hasHistory |-> FALSE, historicalPrices |-> <<>>]
MetricsObject(price, volume, change, liquidity, hasHistory, prices) ==
    [kind |-> "object", price |-> price, volume24h |-> volume,
     priceChange24h |-> change, liquidityUSD |-> liquidity,
     hasHistory |-> hasHistory, historicalPrices |-> prices]

\* The literals 0.1 and 0.5 the mapper compares volatility and
\* volumeToLiquidity with.
VolatilityLimit == Dec(1, 10)
TurnoverLimit == Dec(1, 2)

\* The object getTokenMetrics returns for the parsed body m.
TokenMetrics(m) ==
    [price |-> OrZero(m.price),
     volume24h |-> OrZero(m.volume24h),
     priceChange24h |-> OrZero(m.priceChange24h),
     liquidityUSD |-> OrZero(m.liquidityUSD),
     volatility |-> calculateVolatility(IF m.hasHistory THEN m.historicalPrices ELSE <<>>),
     volumeToLiquidity |-> OrZero(JsDiv(m.volume24h, m.liquidityUSD))]

\* A classification that tags 'high' only when the relaxed criteria applied.
ClassifyTagsByPolicy(token, metrics) ==
    LET isHighVolatility == JsGt(metrics.volatility, VolatilityLimit)
        isHighTurnover == JsGt(metrics.volumeToLiquidity, TurnoverLimit)
        isProfitable ==
            IF isHighVolatility /\ isHighTurnover
            THEN /\ JsGe(metrics.liquidityUSD, Num(25000))
                 /\ JsGe(metrics.volume24h, Num(15000))
                 /\ JsLt(metrics.priceChange24h, Num(-3))
            ELSE /\ JsGe(metrics.liquidityUSD, Num(100000))
                 /\ JsGe(metrics.volume24h, Num(50000))
                 /\ JsLt(metrics.priceChange24h, Num(0))
    IN  IF isProfitable
        THEN << [symbol |-> token.symbol, address |-> token.address,
                 decimals |-> token.decimals, name |-> token.name,
                 riskProfile |-> IF isHighVolatility /\ isHighTurnover THEN "high" ELSE "standard",
                 metrics |-> metrics] >>
        ELSE <<>>

\* A classification that asks no minimum of liquidityUSD.
ClassifyIgnoringLiquidity(token, metrics) ==
    LET isHighVolatility == JsGt(metrics.volatility, VolatilityLimit)
        isHighTurnover == JsGt(metrics.volumeToLiquidity, TurnoverLimit)
        isProfitable ==
            IF isHighVolatility /\ isHighTurnover
            THEN /\ JsGe(metrics.volume24h, Num(15000))
                 /\ JsLt(metrics.priceChange24h, Num(-3))
            ELSE /\ JsGe(metrics.volume24h, Num(50000))
                 /\ JsLt(metrics.priceChange24h, Num(0))
    IN  IF isProfitable
        THEN << [symbol |-> token.symbol, address |-> token.address,
                 decimals |-> token.decimals, name |-> token.name,
                 riskProfile |-> IF isHighVolatility THEN "high" ELSE "standard",
                 metrics |-> metrics] >>
        ELSE <<>>

\* The mapper's value for a token with metrics: the token tagged with its risk
\* profile and metrics when it is profitable, null (no element) otherwise.
Classify(token, metrics) ==
    LET isHighVolatility == JsGt(metrics.volatility, VolatilityLimit)
        isHighTurnover == JsGt(metrics.volumeToLiquidity, TurnoverLimit)
        isProfitable ==
            IF isHighVolatility /\ isHighTurnover
            THEN /\ JsGe(metrics.liquidityUSD, Num(25000))
                 /\ JsGe(metrics.volume24h, Num(15000))
                 /\ JsLt(metrics.priceChange24h, Num(-3))
            ELSE /\ JsGe(metrics.liquidityUSD, Num(100000))
                 /\ JsGe(metrics.volume24h, Num(50000))
                 /\ JsLt(metrics.priceChange24h, Num(0))
    IN  IF isProfitable
        THEN << [symbol |-> token.symbol, address |-> token.address,
                 decimals |-> token.decimals, name |-> token.name,
                 riskProfile |-> IF isHighVolatility THEN "high" ELSE "standard",
                 metrics |-> metrics] >>
        ELSE <<>>

\* The tasks analyzeTokens starts: each mapper runs up to the await fetch(...)
\* of its getTokenMetrics call. A task holds the mapper's position, what
\* getTokenMetrics returned (no element for null), the value the mapper
\* resolved to, and its place in the order in which the mappers settled (0
\* until it settles).
StartedTasks(tokens) ==
    [i \in 1..Len(tokens) |-> [pc |-> "fetch", metrics |-> <<>>, out |-> <<>>, seq |-> 0]]

\* A getTokenMetrics whose exceptions escape: the mapper's promise rejects.
MetricsErrorEscapes == [pc |-> "rejected", metrics |-> <<>>, out |-> <<>>, seq |-> 0]

\* The catch block of getTokenMetrics: the error is logged and null returned
\* to the mapper, which is still waiting.
MetricsErrorCaught == [pc |-> "metrics", metrics |-> <<>>, out |-> <<>>, seq |-> 0]

\* The place in the settling order of the mapper that settles next.
NextSettled(tasks) == 1 + Cardinality({i \in 1..Len(tasks) : tasks[i].seq > 0})

\* Token i's await fetch(.../metrics) settles in getTokenMetrics.
AnFetchSettles(i) ==
    /\ anPc = "running"
    /\ anTask[i].pc = "fetch"
    /\ anTask' = [anTask EXCEPT ![i] =
          IF metricsResponse[anTokens[i].address].kind = "networkError"
          THEN MetricsErrorCaught
          ELSE [@ EXCEPT !.pc = "json"]]
    /\ UNCHANGED <<anPc, anTokens, anResult, volVars, envVars, catVars, trVars, toolVars, lcVars>>

\* Token i's await response.json() settles and getTokenMetrics runs to its
\* end: reading a field of null raises inside the try.
AnJsonSettles(i) ==
    /\ anPc = "running"
    /\ anTask[i].pc = "json"
    /\ LET m == metricsResponse[anTokens[i].address]
       IN  anTask' = [anTask EXCEPT ![i] =
             IF m.kind \in {"unparsable", "null"}
             THEN MetricsErrorCaught
             ELSE [@ EXCEPT !.pc = "metrics", !.metrics = <<TokenMetrics(m)>>]]
    /\ UNCHANGED <<anPc, anTokens, anResult, volVars, envVars, catVars, trVars, toolVars, lcVars>>

\* Token i's await getTokenMetrics(token) settles in the mapper, a step after
\* getTokenMetrics returned, and the mapper runs to its end: null for null
\* metrics, and otherwise the classification.
AnMetricsSettles(i) ==
    /\ anPc = "running"
    /\ anTask[i].pc = "metrics"
    /\ anTask' = [anTask EXCEPT ![i] =
          [@ EXCEPT !.pc = "done",
                    !.out = IF anTask[i].metrics = <<>> THEN <<>>
                            ELSE Classify(anTokens[i], anTask[i].metrics[1]),
                    !.seq = NextSettled(anTask)]]
    /\ UNCHANGED <<anPc, anTokens, anResult, volVars, envVars, catVars, trVars, toolVars, lcVars>>

\* The elements of the tasks' values that are not null, in task order.
RECURSIVE NonNull(_)
NonNull(tasks) ==
    IF tasks = <<>> THEN <<>>
    ELSE NonNull(SubSeq(tasks, 1, Len(tasks) - 1)) \o tasks[Len(tasks)].out

\* The tasks in the order in which they settled.
BySettling(tasks) ==
    [r \in 1..Len(tasks) |-> tasks[CHOOSE i \in 1..Len(tasks) : tasks[i].seq = r]]

\* A join that collects the mappers' values in the order they settled in.
AnJoinAsSettled ==
    /\ anPc = "running"
    /\ \/ \E i \in 1..Len(anTask) : anTask[i].pc = "rejected"
       \/ \A i \in 1..Len(anTask) : anTask[i].pc = "done"
    /\ IF \E i \in 1..Len(anTask) : anTask[i].pc = "rejected"
       THEN anPc' = "rejected" /\ anResult' = anResult
       ELSE anPc' = "returned" /\ anResult' = NonNull(BySettling(anTask))
    /\ UNCHANGED <<anTokens, anTask, volVars, envVars, catVars, trVars, toolVars, lcVars>>

\* await Promise.all(...) settles: rejected once a mapper has rejected,
\* fulfilled once every mapper has; then the nulls are filtered out.
AnJoin ==
    /\ anPc = "running"
    /\ \/ \E i \in 1..Len(anTask) : anTask[i].pc = "rejected"
       \/ \A i \in 1..Len(anTask) : anTask[i].pc = "done"
    /\ IF \E i \in 1..Len(anTask) : anTask[i].pc = "rejected"
       THEN anPc' = "rejected" /\ anResult' = anResult
       ELSE anPc' = "returned" /\ anResult' = NonNull(anTask)
    /\ UNCHANGED <<anTokens, anTask, volVars, envVars, catVars, trVars, toolVars, lcVars>>

\* ------------------------------------------------------------- executeTrade

WETH_ADDRESS == "0x4200000000000000000000000000000000000006"

\* The address walletClient.getAddress() resolves to.
WalletAddress == "0xWALLET"

\* What the quote request can answer: as for metrics, with the one field
\* expectedOutput, possibly absent.
QuoteFailure(kind) == [kind |-> kind, expectedOutput |-> Undefined]
QuoteObject(expectedOutput) == [kind |-> "object", expectedOutput |-> expectedOutput]

\* A value a failing step raises: an Error with a message, or a bare string.
Thrown(step) == {[kind |-> "Error", text |-> step], [kind |-> "string", text |-> step]}

\* error.message: a string has no message property.
MessageOf(thrown) == IF thrown.kind = "Error" THEN thrown.text ELSE UndefinedText

\* const slippageTolerance = 0.005
slippageTolerance == Dec(5, 1000)

\* 1 - slippageTolerance
KeptShare == JsSub(Num(1), slippageTolerance)

\* A slippage bound that rounds to the nearest integer instead of down.
MinimumAmountOutRounded(expectedOutput) ==
    JsFloor(JsAdd(JsMul(expectedOutput, KeptShare), TurnoverLimit))

\* minimumAmountOut = Math.floor(quote.expectedOutput * (1 - slippageTolerance))
MinimumAmountOut(expectedOutput) ==
    JsFloor(JsMul(expectedOutput, KeptShare))

\* deadline = Math.floor(Date.now() / 1000) + 1800
Deadline(dateNow) == JsAdd(JsFloor(JsDiv(Num(dateNow), Num(1000))), Num(1800))

NoLocals == [deadline |-> Undefined, dateNow |-> 0, expectedOutput |-> Undefined,
             minimumAmountOut |-> Undefined]
NoOutcome == [status |-> "none", message |-> <<>>, caught |-> <<>>, result |-> <<>>]

\* The catch block: the error is logged with token.symbol and
\* new Error(`Failed to execute trade: ${error.message}`) is raised. The
\* outcome keeps the caught value beside the new error's message.
TradeRaises(thrown) ==
    /\ trPc' = "threw"
    /\ trOutcome' = [status |-> "threw",
                     message |-> <<"Failed to execute trade: ", MessageOf(thrown)>>,
                     caught |-> <<thrown>>,
                     result |-> <<>>]

\* executeTrade(walletClient, token, amount) is called: it runs up to
\* await walletClient.getContract(routerAddress, routerABI).
TradeStarts(token, amount) ==
    /\ trPc' = "getContract"
    /\ trToken' = token
    /\ trAmount' = amount
    /\ trLocals' = NoLocals
    /\ trOutcome' = NoOutcome

\* await getContract settles; on success the deadline and path are computed
\* and the quote is requested.
TrGetContractSettles ==
    /\ trPc = "getContract"
    /\ \/ /\ trPc' = "fetchQuote"
          /\ trLocals' = [trLocals EXCEPT !.dateNow = now, !.deadline = Deadline(now)]
          /\ UNCHANGED trOutcome
       \/ /\ \E e \in Thrown("getContract failed") : TradeRaises(e)
          /\ UNCHANGED trLocals
    /\ UNCHANGED <<trToken, trAmount, swaps, volVars, envVars, catVars, anVars, toolVars, lcVars>>

\* await fetch(quote url) settles.
TrQuoteFetchSettles ==
    /\ trPc = "fetchQuote"
    /\ IF quoteResponse.kind = "networkError"
       THEN \E e \in Thrown("fetch failed") : TradeRaises(e)
       ELSE trPc' = "parseQuote" /\ UNCHANGED trOutcome
    /\ UNCHANGED <<trToken, trAmount, trLocals, swaps, volVars, envVars, catVars, anVars, toolVars, lcVars>>

\* await quoteResponse.json() settles; minimumAmountOut is computed (reading
\* expectedOutput of null raises) and the swap's arguments are evaluated up to
\* await walletClient.getAddress().
TrQuoteJsonSettles ==
    /\ trPc = "parseQuote"
    /\ IF quoteResponse.kind \in {"unparsable", "null"}
       THEN /\ TradeRaises([kind |-> "Error", text |-> "bad quote"])
            /\ UNCHANGED trLocals
       ELSE /\ trPc' = "getAddress"
            /\ trLocals' = [trLocals EXCEPT
                  !.expectedOutput = quoteResponse.expectedOutput,
                  !.minimumAmountOut = MinimumAmountOut(quoteResponse.expectedOutput)]
            /\ UNCHANGED trOutcome
    /\ UNCHANGED <<trToken, trAmount, swaps, volVars, envVars, catVars, anVars, toolVars, lcVars>>

\* The call router.swapExactETHForTokens(minimumAmountOut, path, to, deadline,
\* {value: amount}), with the trade it belongs to and whether tx.wait() has
\* handed over its receipt.
SwapCall(to) ==
    [amountOutMin |-> trLocals.minimumAmountOut,
     path |-> <<WETH_ADDRESS, trToken.address>>,
     to |-> to,
     deadline |-> trLocals.deadline,
     value |-> trAmount,
     token |-> trToken,
     expectedOutput |-> trLocals.expectedOutput,
     dateNow |-> trLocals.dateNow,
     receipt |-> FALSE]

\* await walletClient.getAddress() settles; on success the swap is submitted.
TrGetAddressSettles ==
    /\ trPc = "getAddress"
    /\ \/ /\ trPc' = "swap"
          /\ swaps' = Append(swaps, SwapCall(WalletAddress))
          /\ UNCHANGED trOutcome
       \/ /\ \E e \in Thrown("getAddress failed") : TradeRaises(e)
          /\ UNCHANGED swaps
    /\ UNCHANGED <<trToken, trAmount, trLocals, volVars, envVars, catVars, anVars, toolVars, lcVars>>

\* An executeTrade that returns its result once the swap is submitted,
\* without await tx.wait().
TrSwapSettlesWithoutWaiting ==
    /\ trPc = "swap"
    /\ \/ /\ trPc' = "returned"
          /\ trOutcome' = [status |-> "returned", message |-> <<>>, caught |-> <<>>,
                result |-> << [success |-> TRUE, hash |-> "0xHASH",
                               amount |-> trAmount, token |-> trToken.symbol] >>]
       \/ \E e \in Thrown("swap reverted") : TradeRaises(e)
    /\ UNCHANGED <<trToken, trAmount, trLocals, swaps, volVars, envVars, catVars, anVars, toolVars, lcVars>>

\* await router.swapExactETHForTokens(...) settles; on success tx.wait() is called.
TrSwapSettles ==
    /\ trPc = "swap"
    /\ \/ trPc' = "wait" /\ UNCHANGED trOutcome
       \/ \E e \in Thrown("swap reverted") : TradeRaises(e)
    /\ UNCHANGED <<trToken, trAmount, trLocals, swaps, volVars, envVars, catVars, anVars, toolVars, lcVars>>

\* await tx.wait() settles; on success the receipt is in hand and the trade
\* result is returned.
TrWaitSettles ==
    /\ trPc = "wait"
    /\ \/ /\ trPc' = "returned"
          /\ trOutcome' = [status |-> "returned", message |-> <<>>, caught |-> <<>>,
                result |-> << [success |-> TRUE, hash |-> "0xHASH",
                               amount |-> trAmount, token |-> trToken.symbol] >>]
          /\ swaps' = [swaps EXCEPT ![Len(swaps)].receipt = TRUE]
       \/ /\ \E e \in Thrown("wait failed") : TradeRaises(e)
          /\ UNCHANGED swaps
    /\ UNCHANGED <<trToken, trAmount, trLocals, volVars, envVars, catVars, anVars, toolVars, lcVars>>

\* ------------------------------------------- find_and_trade_base_tokens tool

\* `Trades executed: ${results.join(', ')}`: each result object converts to
\* the text [object Object].
RECURSIVE Joined(_)
Joined(results) ==
    IF results = <<>> THEN <<>>
    ELSE IF Len(results) = 1 THEN <<"[object Object]">>
    ELSE Joined(SubSeq(results, 1, Len(results) - 1)) \o <<", ", "[object Object]">>

Summary(results) == <<"Trades executed: ">> \o Joined(results)

\* The tool's method is called with parameters {amount}: amount defaults to 1
\* and fetchTokensOnBase runs up to await fetch(url).
ToolInvoke(amount) ==
    /\ toolPc = "idle"
    /\ toolPc' = "fetchTokens"
    /\ toolAmount' = IF amount = Undefined THEN Num(1) ELSE amount
    /\ catPc' = "fetch"
    /\ catFetches' = catFetches + 1
    /\ UNCHANGED <<catResult, toolProfitable, toolIdx, toolResults, toolOutcome,
                   volVars, envVars, anVars, trVars, lcVars>>

\* await fetchTokensOnBase() settles and analyzeTokens(availableTokens) starts
\* one mapper per token.
ToolAnalyze ==
    /\ toolPc = "fetchTokens"
    /\ catPc = "returned"
    /\ toolPc' = "analyze"
    /\ catPc' = "idle"
    /\ anPc' = "running"
    /\ anTokens' = catResult
    /\ anTask' = StartedTasks(catResult)
    /\ UNCHANGED <<anResult, catResult, catFetches, toolAmount, toolProfitable, toolIdx,
                   toolResults, toolOutcome, volVars, envVars, trVars, lcVars>>

\* await analyzeTokens(...) settles and the loop over the profitable tokens
\* begins: its first executeTrade starts, or with no token the text is returned.
ToolTradeFirst ==
    /\ toolPc = "analyze"
    /\ anPc \in {"returned", "rejected"}
    /\ anPc' = "idle"
    /\ IF anPc = "rejected"
       THEN /\ toolPc' = "rejected"
            /\ toolOutcome' = [status |-> "threw", text |-> <<"analyzeTokens failed">>]
            /\ UNCHANGED <<toolProfitable, toolIdx, trVars>>
       ELSE /\ toolProfitable' = anResult
            /\ IF anResult = <<>>
               THEN /\ toolPc' = "returned"
                    /\ toolOutcome' = [status |-> "returned", text |-> Summary(<<>>)]
                    /\ UNCHANGED <<toolIdx, trVars>>
               ELSE /\ toolPc' = "trading"
                    /\ toolIdx' = 1
                    /\ TradeStarts(anResult[1], toolAmount)
                    /\ UNCHANGED <<toolOutcome, swaps>>
    /\ UNCHANGED <<anTokens, anTask, anResult, toolAmount, toolResults,
                   volVars, envVars, catVars, lcVars>>

\* await executeTrade(...) settles. An error leaves the loop and the method
\* (nothing catches it); a result is pushed, and the next token's executeTrade
\* starts or, after the last token, the text is returned.
ToolTradeSettles ==
    /\ toolPc = "trading"
    /\ trPc \in {"returned", "threw"}
    /\ IF trPc = "threw"
       THEN /\ toolPc' = "rejected"
            /\ toolOutcome' = [status |-> "threw", text |-> trOutcome.message]
            /\ trPc' = "idle"
            /\ UNCHANGED <<toolIdx, toolResults, trToken, trAmount, trLocals, trOutcome>>
       ELSE /\ toolResults' = Append(toolResults, trOutcome)
            /\ IF toolIdx < Len(toolProfitable)
               THEN /\ toolIdx' = toolIdx + 1
                    /\ TradeStarts(toolProfitable[toolIdx + 1], toolAmount)
                    /\ UNCHANGED <<toolPc, toolOutcome>>
               ELSE /\ toolPc' = "returned"
                    /\ toolOutcome' = [status |-> "returned", text |-> Summary(toolResults')]
                    /\ trPc' = "idle"
                    /\ UNCHANGED <<toolIdx, trToken, trAmount, trLocals, trOutcome>>
    /\ UNCHANGED <<swaps, toolAmount, toolProfitable, volVars, envVars, catVars, anVars, lcVars>>

\* Half a second passes.
Tick ==
    /\ now < MaxTicks * 500
    /\ now' = now + 500
    /\ UNCHANGED <<catalogResponse, metricsResponse, quoteResponse,
                   volVars, catVars, anVars, trVars, toolVars, lcVars>>

\* ---------------------------------------------------------------- AutoClient

NoPlugin == [created |-> FALSE, hasOnStart |-> FALSE, hasCleanup |-> FALSE]

Event(op, ev) == [op |-> op, ev |-> ev]

\* initializePlugin's catch block: it logs the error and raises it again, so
\* the promise of this.initializePlugin() rejects. The promise of
\* this.initialize() is still pending.
InitializationFails(stage) ==
    /\ lcPc' = "failed"
    /\ lcError' = stage
    /\ UNCHANGED lcInitPromise

\* AutoClientInterface.start(runtime): new AutoClient(runtime) stores the
\* runtime and calls this.initialize() without awaiting it, which runs up to
\* await createRabbiTraderPlugin(...); the constructor returns and start's
\* promise resolves with the client.
InterfaceStart ==
    /\ lcPc = "none"
    /\ lcPc' = "creating"
    /\ lcInitPromise' = "pending"
    /\ lcCtor' = "returned"
    /\ lcStartResult' = "resolved"
    /\ UNCHANGED <<lcError, lcPlugin, lcStops, lcTrace,
                   volVars, envVars, catVars, anVars, trVars, toolVars>>

\* await createRabbiTraderPlugin(...) settles; on success this.plugin is set
\* and plugin.initialize(runtime) is called.
LcCreateSettles ==
    /\ lcPc = "creating"
    /\ \/ \E onStart \in BOOLEAN, cleanup \in BOOLEAN :
            /\ lcPlugin' = [created |-> TRUE, hasOnStart |-> onStart, hasCleanup |-> cleanup]
            /\ lcPc' = "initializing"
            /\ lcTrace' = Append(lcTrace, Event("initialize", "call"))
            /\ UNCHANGED <<lcError, lcInitPromise>>
       \/ /\ InitializationFails("create")
          /\ UNCHANGED <<lcPlugin, lcTrace>>
    /\ UNCHANGED <<lcCtor, lcStartResult, lcStops,
                   volVars, envVars, catVars, anVars, trVars, toolVars>>

\* An initializePlugin that goes on to plugin.start() whatever became of
\* plugin.initialize().
LcInitializeSettlesIgnoringFailure ==
    /\ lcPc = "initializing"
    /\ \E ev \in {"ok", "fail"} :
          lcTrace' = lcTrace \o <<Event("initialize", ev), Event("start", "call")>>
    /\ lcPc' = "starting"
    /\ UNCHANGED <<lcError, lcInitPromise, lcPlugin, lcCtor, lcStartResult, lcStops,
                   volVars, envVars, catVars, anVars, trVars, toolVars>>

\* await plugin.initialize(runtime) settles; on success plugin.start() is called.
LcInitializeSettles ==
    /\ lcPc = "initializing"
    /\ \/ /\ lcPc' = "starting"
          /\ lcTrace' = lcTrace \o <<Event("initialize", "ok"), Event("start", "call")>>
          /\ UNCHANGED <<lcError, lcInitPromise>>
       \/ /\ InitializationFails("initialize")
          /\ lcTrace' = Append(lcTrace, Event("initialize", "fail"))
    /\ UNCHANGED <<lcPlugin, lcCtor, lcStartResult, lcStops,
                   volVars, envVars, catVars, anVars, trVars, toolVars>>

\* await plugin.start() settles; on success plugin.onStart() is called if the
\* plugin has one, and otherwise initializePlugin returns.
LcStartSettles ==
    /\ lcPc = "starting"
    /\ \/ /\ IF lcPlugin.hasOnStart
             THEN /\ lcPc' = "onStart"
                  /\ lcTrace' = lcTrace \o <<Event("start", "ok"), Event("onStart", "call")>>
             ELSE /\ lcPc' = "done"
                  /\ lcTrace' = Append(lcTrace, Event("start", "ok"))
          /\ UNCHANGED <<lcError, lcInitPromise>>
       \/ /\ InitializationFails("start")
          /\ lcTrace' = Append(lcTrace, Event("start", "fail"))
    /\ UNCHANGED <<lcPlugin, lcCtor, lcStartResult, lcStops,
                   volVars, envVars, catVars, anVars, trVars, toolVars>>

\* await plugin.onStart() settles; on success initializePlugin returns.
LcOnStartSettles ==
    /\ lcPc = "onStart"
    /\ \/ /\ lcPc' = "done"
          /\ lcTrace' = Append(lcTrace, Event("onStart", "ok"))
          /\ UNCHANGED <<lcError, lcInitPromise>>
       \/ /\ InitializationFails("onStart")
          /\ lcTrace' = Append(lcTrace, Event("onStart", "fail"))
    /\ UNCHANGED <<lcPlugin, lcCtor, lcStartResult, lcStops,
                   volVars, envVars, catVars, anVars, trVars, toolVars>>

\* await this.initializePlugin() settles in initialize, a step after
\* initializePlugin returned or raised: initialize logs and returns, or its
\* catch block logs the error and raises it again. The constructor dropped
\* the promise of this.initialize().
LcInitializePluginSettles ==
    /\ lcPc \in {"done", "failed"}
    /\ lcInitPromise = "pending"
    /\ lcInitPromise' = IF lcPc = "done" THEN "fulfilled" ELSE "rejected"
    /\ UNCHANGED <<lcPc, lcError, lcPlugin, lcCtor, lcStartResult, lcStops, lcTrace,
                   volVars, envVars, catVars, anVars, trVars, toolVars>>

\* client.stop() is called: no interval was ever set; plugin.cleanup() is
\* called if this.plugin is set and has one, and otherwise stop's promise
\* resolves. The call is recorded with the position of the initialization
\* and the failed stage at the time, and with the number of calls and
\* outcomes the plugin had seen when stop's promise settled (-1 until then).
LcStop ==
    /\ lcCtor = "returned"
    /\ Len(lcStops) < MaxStops
    /\ IF lcPlugin.created /\ lcPlugin.hasCleanup
       THEN /\ lcStops' = Append(lcStops,
                    [pc |-> "cleanup", at |-> lcPc, err |-> lcError, done |-> -1])
            /\ lcTrace' = Append(lcTrace, Event("cleanup", "call"))
       ELSE /\ lcStops' = Append(lcStops,
                    [pc |-> "resolved", at |-> lcPc, err |-> lcError, done |-> Len(lcTrace)])
            /\ UNCHANGED lcTrace
    /\ UNCHANGED <<lcPc, lcError, lcPlugin, lcCtor, lcStartResult, lcInitPromise,
                   volVars, envVars, catVars, anVars, trVars, toolVars>>

\* await plugin.cleanup() of stop call i settles: stop's catch block logs an
\* error and raises it again.
LcCleanupSettles(i) ==
    /\ lcStops[i].pc = "cleanup"
    /\ \E ev \in {"ok", "fail"} :
          /\ lcStops' = [lcStops EXCEPT ![i].pc = IF ev = "ok" THEN "resolved" ELSE "rejected",
                                        ![i].done = Len(lcTrace) + 1]
          /\ lcTrace' = Append(lcTrace, Event("cleanup", ev))
    /\ UNCHANGED <<lcPc, lcError, lcPlugin, lcCtor, lcStartResult, lcInitPromise,
                   volVars, envVars, catVars, anVars, trVars, toolVars>>

\* ------------------------------------------------------------ specifications

NoMetrics == [a \in {} |-> NaN]

InitVolIdle == volIn = <<>> /\ volOut = Num(0)
InitCatIdle == catPc = "idle" /\ catResult = <<>> /\ catFetches = 0
InitAnIdle == anPc = "idle" /\ anTokens = <<>> /\ anTask = <<>> /\ anResult = <<>>
InitTrIdle ==
    /\ trPc = "idle" /\ trToken = TokenA /\ trAmount = Num(1)
    /\ trLocals = NoLocals /\ trOutcome = NoOutcome /\ swaps = <<>>
InitLcIdle ==
    /\ lcPc = "none" /\ lcError = "none" /\ lcPlugin = NoPlugin /\ lcCtor = "none"
    /\ lcStartResult = "none" /\ lcInitPromise = "none" /\ lcStops = <<>> /\ lcTrace = <<>>
InitToolIdle ==
    /\ toolPc = "idle" /\ toolAmount = Num(1) /\ toolProfitable = <<>> /\ toolIdx = 0
    /\ toolResults = <<>> /\ toolOutcome = [status |-> "none", text |-> <<>>]
InitEnvIdle ==
    /\ catalogResponse = NetworkError /\ metricsResponse = NoMetrics
    /\ quoteResponse = QuoteFailure("networkError") /\ now = 0

\* calculateVolatility called on every array of at most MaxPrices prices.
InitVolatility ==
    /\ volIn \in {[i \in 1..Len(s) |-> Num(s[i])] : s \in SeqsUpTo(PriceValues, MaxPrices)}
    /\ volOut = NoValue
    /\ InitEnvIdle /\ InitCatIdle /\ InitAnIdle /\ InitTrIdle /\ InitToolIdle /\ InitLcIdle

NextVolatility == VolatilityReturns

SpecVolatility == InitVolatility /\ [][NextVolatility]_vars

\* The answers the token-list request is drawn from.
CatalogResponses ==
    {NetworkError}
    \cup {HttpResponse(ok, "unparsable", OtherPayload("null")) : ok \in BOOLEAN}
    \cup {HttpResponse(ok, "json", OtherPayload(sh)) :
            ok \in BOOLEAN, sh \in {"object", "null", "number", "string"}}
    \cup {HttpResponse(ok, "json", ArrayPayload(items)) :
            ok \in BOOLEAN, items \in SeqsUpTo(ListElems, MaxListed)}

\* fetchTokensOnBase called once: fetch(url) has been issued.
InitCatalog ==
    /\ catalogResponse \in CatalogResponses
    /\ metricsResponse = NoMetrics /\ quoteResponse = QuoteFailure("networkError") /\ now = 0
    /\ catPc = "fetch" /\ catResult = <<>> /\ catFetches = 1
    /\ InitVolIdle /\ InitAnIdle /\ InitTrIdle /\ InitToolIdle /\ InitLcIdle

NextCatalog == CatFetchSettles \/ CatJsonSettles

SpecCatalog == InitCatalog /\ [][NextCatalog]_vars

\* The metrics answers the classification specification draws: every
\* combination of values around the thresholds of both policies.
ThresholdMetrics ==
    { MetricsObject(p, v, c, l, h[1], h[2]) :
        p \in {Undefined, Num(1)},
        v \in {Undefined, Num(0), Num(14999), Num(15000), Num(49999), Num(50000), Num(60000)},
        c \in {Undefined, Num(-5), Dec(-7, 2), Num(-3), Num(-1), Num(0), Num(1)},
        l \in {Undefined, Num(0), Num(24999), Num(25000), Num(99999), Num(100000)},
        h \in { <<FALSE, <<>> >>, <<TRUE, <<>> >>,
                <<TRUE, <<Num(10), Num(11), Num(10)>> >>,
                <<TRUE, <<Num(100), Num(110), Num(99)>> >>,
                <<TRUE, <<Num(1), Num(2), Num(1)>> >>,
                <<TRUE, <<Num(1), Num(5), Num(24)>> >>,
                <<TRUE, <<Num(0), Num(0)>> >> } }

\* analyzeTokens called on one token whose metrics take every threshold value.
InitClassify ==
    /\ anTokens = <<TokenA>>
    /\ metricsResponse \in [{TokenA.address} ->
          ThresholdMetrics \cup {MetricsFailure(k) : k \in {"networkError", "unparsable", "null"}}]
    /\ anPc = "running" /\ anTask = StartedTasks(anTokens) /\ anResult = <<>>
    /\ catalogResponse = NetworkError /\ quoteResponse = QuoteFailure("networkError") /\ now = 0
    /\ InitVolIdle /\ InitCatIdle /\ InitTrIdle /\ InitToolIdle /\ InitLcIdle

\* Representative metrics answers: the three failures, a token passing the
\* relaxed policy, one passing the standard policy, one failing it, and one
\* with no liquidity.
SampleMetrics ==
    { MetricsFailure("networkError"), MetricsFailure("unparsable"), MetricsFailure("null"),
      MetricsObject(Num(1), Num(15000), Num(-5), Num(25000), TRUE, <<Num(1), Num(2), Num(1)>>),
      MetricsObject(Num(1), Num(60000), Num(-1), Num(100000), FALSE, <<>>),
      MetricsObject(Num(1), Num(60000), Num(1), Num(100000), FALSE, <<>>),
      MetricsObject(Num(1), Num(60000), Num(-5), Num(0), TRUE, <<Num(1), Num(2), Num(1)>>) }

\* analyzeTokens called on a list of tokens: every fetch has been issued.
InitAnalyze ==
    /\ anTokens \in SeqsUpTo({TokenA, TokenB}, MaxTokens)
    /\ metricsResponse \in [{TokenA.address, TokenB.address} -> SampleMetrics]
    /\ anPc = "running" /\ anTask = StartedTasks(anTokens) /\ anResult = <<>>
    /\ catalogResponse = NetworkError /\ quoteResponse = QuoteFailure("networkError") /\ now = 0
    /\ InitVolIdle /\ InitCatIdle /\ InitTrIdle /\ InitToolIdle /\ InitLcIdle

NextAnalyze ==
    \/ \E i \in 1..Len(anTask) : AnFetchSettles(i)
    \/ \E i \in 1..Len(anTask) : AnJsonSettles(i)
    \/ \E i \in 1..Len(anTask) : AnMetricsSettles(i)
    \/ AnJoin

SpecClassify == InitClassify /\ [][NextAnalyze]_vars
SpecAnalyze == InitAnalyze /\ [][NextAnalyze]_vars

\* The quote answers the trade specification draws.
QuoteResponses ==
    {QuoteFailure(k) : k \in {"networkError", "unparsable", "null"}}
    \cup {QuoteObject(e) : e \in {Undefined, Num(0), Num(1), Num(199), Num(200),
                                   Num(1000), Num(1001), Dec(2001, 2)}}

\* executeTrade called once on a token with an amount.
InitTrade ==
    /\ quoteResponse \in QuoteResponses
    /\ trToken \in {TokenA, TokenB}
    /\ trAmount \in {Num(1), Num(2)}
    /\ trPc = "getContract" /\ trLocals = NoLocals /\ trOutcome = NoOutcome /\ swaps = <<>>
    /\ catalogResponse = NetworkError /\ metricsResponse = NoMetrics /\ now = 0
    /\ InitVolIdle /\ InitCatIdle /\ InitAnIdle /\ InitToolIdle /\ InitLcIdle

NextTrade ==
    \/ TrGetContractSettles
    \/ TrQuoteFetchSettles
    \/ TrQuoteJsonSettles
    \/ TrGetAddressSettles
    \/ TrSwapSettles
    \/ TrWaitSettles
    \/ Tick

SpecTrade == InitTrade /\ [][NextTrade]_vars

\* The worlds the tool specification draws: what the token-list request
\* answers, with the addresses of the tokens fetchTokensOnBase then returns.
ToolWorlds ==
    { [catalog |-> NetworkError,
       addresses |-> {FallbackTokens[i].address : i \in 1..Len(FallbackTokens)}],
      [catalog |-> HttpResponse(TRUE, "json", ArrayPayload(<<ObjectElem(TokenA), ObjectElem(TokenB)>>)),
       addresses |-> {TokenA.address, TokenB.address}],
      [catalog |-> HttpResponse(TRUE, "json", ArrayPayload(<<ObjectElem(TokenB), BareElem("number")>>)),
       addresses |-> {TokenB.address, UndefinedText}] }

\* The metrics answers the tool specification draws: a failed fetch, a token
\* passing the relaxed policy, one passing the standard policy, and one with
\* no liquidity.
ToolMetrics ==
    { MetricsFailure("networkError"),
      MetricsObject(Num(1), Num(15000), Num(-5), Num(25000), TRUE, <<Num(1), Num(2), Num(1)>>),
      MetricsObject(Num(1), Num(60000), Num(-1), Num(100000), FALSE, <<>>),
      MetricsObject(Num(1), Num(60000), Num(-5), Num(0), TRUE, <<Num(1), Num(2), Num(1)>>) }

\* The tool before its method is called. The clock stands still here.
Init ==
    /\ \E w \in ToolWorlds :
          /\ catalogResponse = w.catalog
          /\ metricsResponse \in [w.addresses -> ToolMetrics]
    /\ quoteResponse \in {QuoteFailure("networkError"), QuoteObject(Num(1000))}
    /\ now = 0
    /\ InitVolIdle /\ InitCatIdle /\ InitAnIdle /\ InitTrIdle /\ InitToolIdle /\ InitLcIdle

Next ==
    \/ \E amount \in {Undefined, Num(1), Num(2)} : ToolInvoke(amount)
    \/ CatFetchSettles
    \/ CatJsonSettles
    \/ ToolAnalyze
    \/ \E i \in 1..Len(anTask) : AnFetchSettles(i)
    \/ \E i \in 1..Len(anTask) : AnJsonSettles(i)
    \/ \E i \in 1..Len(anTask) : AnMetricsSettles(i)
    \/ AnJoin
    \/ ToolTradeFirst
    \/ TrGetContractSettles
    \/ TrQuoteFetchSettles
    \/ TrQuoteJsonSettles
    \/ TrGetAddressSettles
    \/ TrSwapSettles
    \/ TrWaitSettles
    \/ ToolTradeSettles

Spec == Init /\ [][Next]_vars

\* The host before it starts the client.
InitLifecycle ==
    /\ InitLcIdle
    /\ InitEnvIdle /\ InitVolIdle /\ InitCatIdle /\ InitAnIdle /\ InitTrIdle /\ InitToolIdle

NextLifecycle ==
    \/ InterfaceStart
    \/ LcCreateSettles
    \/ LcInitializeSettles
    \/ LcStartSettles
    \/ LcOnStartSettles
    \/ LcInitializePluginSettles
    \/ LcStop
    \/ \E i \in 1..Len(lcStops) : LcCleanupSettles(i)

SpecLifecycle == InitLifecycle /\ [][NextLifecycle]_vars

\* -------------------------------------------------------------------- claims

Range(s) == {s[i] : i \in 1..Len(s)}

\* C1: a failure of plugin creation, initialize(), start() or onStart() during
\* construction propagates to the instantiating caller: the constructing call
\* raises or rejects instead of returning a client handle.
C1_FailurePropagatesToCaller ==
    lcError # "none" => (lcCtor = "threw" /\ lcStartResult = "rejected")

\* The calls made on the plugin during initialization, with their outcomes.
IsLifecycleEvent(e) == e.op # "cleanup"
LifecycleEvents == SelectSeq(lcTrace, IsLifecycleEvent)

\* C2: the lifecycle calls happen in the order initialize, start, onStart
\* (onStart only if the plugin defines it), each at most once and only after
\* the previous one completed successfully; after a failed stage no later
\* stage is invoked.
C2_LifecycleOrder ==
    LET L == LifecycleEvents
    IN  \A i \in 1..Len(L) :
          /\ L[i].ev = "call" =>
                \/ L[i].op = "initialize" /\ i = 1
                \/ L[i].op = "start" /\ i = 3 /\ L[2] = Event("initialize", "ok")
                \/ /\ L[i].op = "onStart" /\ i = 5 /\ L[4] = Event("start", "ok")
                   /\ lcPlugin.hasOnStart
          /\ L[i].ev # "call" => (i > 1 /\ L[i - 1] = Event(L[i].op, "call"))
          /\ L[i].ev = "fail" => i = Len(L)

\* All three stages were invoked and completed.
C2_Witness ==
    /\ lcPc = "done"
    /\ LifecycleEvents = << Event("initialize", "call"), Event("initialize", "ok"),
                            Event("start", "call"), Event("start", "ok"),
                            Event("onStart", "call"), Event("onStart", "ok") >>

\* A stop() call made before plugin.start() had completed successfully: the
\* plugin not created yet, initialization in flight, or a failed creation,
\* initialize() or start().
BeforeSuccessfulStart(stop) ==
    \/ stop.at \in {"creating", "initializing", "starting"}
    \/ stop.at = "failed" /\ stop.err \in {"create", "initialize", "start"}

\* C3: stop() never raises when it is called before any successful start,
\* whatever the plugin's cleanup hook does.
C3_StopBeforeStartNeverRaises ==
    \A i \in 1..Len(lcStops) :
        BeforeSuccessfulStart(lcStops[i]) => lcStops[i].pc # "rejected"

\* C4: a failure in any step of executeTrade is re-raised as one error that
\* identifies both the token symbol and the underlying cause.
C4_TradeErrorNamesSymbolAndCause ==
    trOutcome.status = "threw" =>
        /\ trOutcome.result = <<>>
        /\ trToken.symbol \in Range(trOutcome.message)
        /\ \A e \in Range(trOutcome.caught) : e.text \in Range(trOutcome.message)

\* C5: a failed trade aborts only that token's processing: once the tool has
\* finished, a trade was attempted for every profitable token, and the trades
\* that succeeded are reported in the text it returns.
C5_FailedTradeAbortsOnlyThatToken ==
    toolPc \in {"returned", "rejected"} =>
        /\ toolIdx = Len(toolProfitable)
        /\ toolResults # <<>> => toolOutcome.status = "returned"

\* An array element with the four token fields.
IsTokenObject(el) ==
    /\ el.kind = "object"
    /\ el.symbol # UndefinedText /\ el.address # UndefinedText
    /\ el.decimals # Undefined /\ el.name # UndefinedText

\* The token-list request failed: a network error, a non-success status, a
\* body that is no JSON, or a payload that is not an array of token objects.
CatalogFailed(r) ==
    \/ r.kind = "networkError"
    \/ ~r.ok
    \/ r.body = "unparsable"
    \/ r.payload.shape # "array"
    \/ \E i \in 1..Len(r.payload.items) : ~IsTokenObject(r.payload.items[i])

\* C6: fetchTokensOnBase returns exactly the fallback list USDC, WETH, BTC,
\* SOL whenever the request failed, after exactly one network retrieval.
C6_CatalogFallsBackOnAnyFailure ==
    catPc = "returned" =>
        /\ catFetches = 1
        /\ CatalogFailed(catalogResponse) => catResult = FallbackTokens

\* Token i's metrics fetch fails: a network error, or an unparsable or null
\* payload.
MetricsFetchFails(i) ==
    metricsResponse[anTokens[i].address].kind \in {"networkError", "unparsable", "null"}

\* The analysis of a token list one token after the other.
RECURSIVE AnalysedInTurn(_)
AnalysedInTurn(tokens) ==
    IF tokens = <<>> THEN <<>>
    ELSE AnalysedInTurn(SubSeq(tokens, 1, Len(tokens) - 1))
         \o Classify(tokens[Len(tokens)], TokenMetrics(metricsResponse[tokens[Len(tokens)].address]))

\* The tokens of the input whose metrics fetch does not fail, in input order.
RECURSIVE WithoutFailing(_)
WithoutFailing(n) ==
    IF n = 0 THEN <<>>
    ELSE WithoutFailing(n - 1) \o (IF MetricsFetchFails(n) THEN <<>> ELSE <<anTokens[n]>>)

\* C7: a token whose metrics fetch fails is absent from the output, the call
\* never raises, and the output is the analysis of the input with the failing
\* tokens left out.
C7_FailedFetchOnlyDropsThatToken ==
    /\ anPc # "rejected"
    /\ anPc = "returned" =>
          /\ \A i \in 1..Len(anTokens) : MetricsFetchFails(i) =>
                \A j \in 1..Len(anResult) : anResult[j].address # anTokens[i].address
          /\ anResult = AnalysedInTurn(WithoutFailing(Len(anTokens)))

\* The call returned a token although the fetch for another token failed.
C7_Witness ==
    /\ anPc = "returned"
    /\ anResult # <<>>
    /\ \E i \in 1..Len(anTokens) : MetricsFetchFails(i)

\* x >= k and x < k for a finite number x and an integer k.
AtLeast(x, k) == x.k = "fin" /\ Cmp(x, Num(k)) >= 0
Below(x, k) == x.k = "fin" /\ Cmp(x, Num(k)) < 0

\* volatility > 0.10 and volumeToLiquidity > 0.50, for a finite number or
\* +Infinity; 0.10 is the double the literal stands for.
TenPercent == Dec(10, 100)
FiftyPercent == Dec(50, 100)

HighVolatility(m) ==
    \/ m.volatility.k = "fin" /\ Cmp(m.volatility, TenPercent) > 0
    \/ m.volatility = PosInf
HighTurnover(m) ==
    \/ m.volumeToLiquidity.k = "fin" /\ Cmp(m.volumeToLiquidity, FiftyPercent) > 0
    \/ m.volumeToLiquidity = PosInf

\* C8: a token with fetched metrics is in the output iff it passes the
\* relaxed policy when volatility > 0.10 and volumeToLiquidity > 0.50, and
\* the standard policy otherwise; it is tagged 'high' exactly when
\* volatility > 0.10.
C8_PolicyAndRiskProfile ==
    \A i \in 1..Len(anTask) :
        (anTask[i].pc = "done" /\ ~MetricsFetchFails(i)) =>
            LET m == TokenMetrics(metricsResponse[anTokens[i].address])
                passes ==
                    IF HighVolatility(m) /\ HighTurnover(m)
                    THEN AtLeast(m.liquidityUSD, 25000) /\ AtLeast(m.volume24h, 15000)
                         /\ Below(m.priceChange24h, -3)
                    ELSE AtLeast(m.liquidityUSD, 100000) /\ AtLeast(m.volume24h, 50000)
                         /\ Below(m.priceChange24h, 0)
            IN  /\ (anTask[i].out # <<>>) <=> passes
                /\ anTask[i].out # <<>> =>
                      /\ anTask[i].out[1].metrics = m
                      /\ anTask[i].out[1].address = anTokens[i].address
                      /\ anTask[i].out[1].riskProfile =
                            IF HighVolatility(m) THEN "high" ELSE "standard"

\* A token that passed the standard policy (its turnover is not high) and is
\* tagged 'high'.
C8_Witness ==
    /\ anPc = "returned"
    /\ Len(anResult) = 1
    /\ anResult[1].riskProfile = "high"
    /\ ~HighTurnover(anResult[1].metrics)

\* floor(expectedOutput * 995 / 1000) in integer arithmetic, for a quote that
\* is a multiple of 2^-15 below 2^21; NaN when the quote has no
\* expectedOutput. For such a quote the rounding of 1 - 0.005 and of the
\* product moves the product by less than its distance to the integer below.
FloorOfSlipped(e) ==
    IF e.k = "fin"
    THEN Num((BnToInt(e.m) * (2 ^ Max(e.e, 0)) * 995) \div ((2 ^ Max(-e.e, 0)) * 1000))
    ELSE NaN

\* C9: every swap submitted carries amountOutMin = floor(expectedOutput *
\* (1 - 0.005)) for the quote's expectedOutput, the path [WETH, token.address],
\* the wallet's own address as recipient, value = amount, and a deadline 1800
\* seconds after the time the trade read the clock.
C9_SwapArguments ==
    /\ \A i \in 1..Len(swaps) :
          /\ swaps[i].amountOutMin = FloorOfSlipped(swaps[i].expectedOutput)
          /\ swaps[i].path = <<"0x4200000000000000000000000000000000000006", swaps[i].token.address>>
          /\ swaps[i].to = WalletAddress
          /\ swaps[i].deadline = Num((swaps[i].dateNow \div 1000) + 1800)
    /\ trPc \in {"swap", "wait", "returned"} =>
          /\ swaps # <<>>
          /\ swaps[Len(swaps)].token = trToken
          /\ swaps[Len(swaps)].value = trAmount
          /\ swaps[Len(swaps)].expectedOutput = quoteResponse.expectedOutput
          /\ swaps[Len(swaps)].dateNow <= now

\* A swap for a quote of 1000 was submitted with amountOutMin 995, after the
\* clock had advanced past a whole second.
C9_Witness ==
    /\ trPc = "returned"
    /\ Len(swaps) = 1
    /\ swaps[1].expectedOutput = Num(1000)
    /\ swaps[1].amountOutMin = Num(995)
    /\ swaps[1].deadline = Num(1801)

\* C10: calculateVolatility returns exactly 0 for every constant price
\* sequence of length >= 2, a price of 0 included, and for every sequence of
\* length < 2.
C10_ConstantOrShortIsZero ==
    volOut # NoValue =>
        ((Len(volIn) < 2 \/ \A i, j \in 1..Len(volIn) : volIn[i] = volIn[j])
            => IsZero(volOut))

\* A call of plugin.initialize(), plugin.start() or plugin.onStart().
IsLifecycleCall(e) == IsLifecycleEvent(e) /\ e.ev = "call"

\* C11: the lifecycle only moves forward and stopped is terminal: no
\* plugin.initialize(), plugin.start() or plugin.onStart() call is made after
\* a stop() has completed, and the plugin's cleanup hook is never run before
\* a plugin.start() call that follows it.
C11_StoppedIsTerminal ==
    /\ \A i \in 1..Len(lcStops) :
          lcStops[i].pc = "resolved" =>
              \A j \in (lcStops[i].done + 1)..Len(lcTrace) : ~IsLifecycleCall(lcTrace[j])
    /\ \A j, k \in 1..Len(lcTrace) :
          (j < k /\ lcTrace[j] = Event("cleanup", "call")) => lcTrace[k] # Event("start", "call")

\* C12: the tool's trades are strictly sequential: when a swap is submitted
\* the receipt of every earlier swap has been obtained, so at most one trade is
\* in flight, and the swaps are submitted for the tokens of the analyzer's
\* output, one each, in its order.
C12_TradesAreSequential ==
    /\ Len(swaps) <= Len(anResult)
    /\ \A k \in 1..Len(swaps) :
          /\ swaps[k].token = anResult[k]
          /\ k < Len(swaps) => swaps[k].receipt
    /\ Cardinality({k \in 1..Len(swaps) : ~swaps[k].receipt}) <= 1

\* Two different tokens were traded one after the other and the tool returned.
C12_Witness ==
    /\ toolPc = "returned"
    /\ Len(swaps) = 2
    /\ swaps[1].token # swaps[2].token
    /\ swaps[1].receipt /\ swaps[2].receipt

\* What token i of the input contributes to the output, decided by its own
\* metrics answer alone: nothing when the fetch fails or the token is not
\* profitable, the token with its riskProfile and metrics otherwise.
OwnResult(i) ==
    IF MetricsFetchFails(i) THEN <<>>
    ELSE Classify(anTokens[i], TokenMetrics(metricsResponse[anTokens[i].address]))

\* The contributions of the first n tokens of the input, in input order.
RECURSIVE InInputOrder(_)
InInputOrder(n) == IF n = 0 THEN <<>> ELSE InInputOrder(n - 1) \o OwnResult(n)

\* C13: whatever the order in which the per-token fetches complete,
\* analyzeTokens returns only after all of them have completed, and its output
\* is each token's own result (riskProfile and metrics from that token's
\* metrics alone) for the profitable tokens, in input order.
C13_ResultIndependentOfCompletionOrder ==
    anPc = "returned" =>
        /\ \A i \in 1..Len(anTask) : anTask[i].pc = "done" /\ anTask[i].seq > 0
        /\ anResult = InInputOrder(Len(anTokens))

\* Two tokens with different results are both in the output, and the later
\* one's fetch completed first.
C13_Witness ==
    /\ anPc = "returned"
    /\ \E i, j \in 1..Len(anTask) :
          /\ i < j /\ anTask[i].seq > anTask[j].seq
          /\ anTask[i].out # <<>> /\ anTask[j].out # <<>>
          /\ anTask[i].out # anTask[j].out

\* The catalog entry an analysed token was made from.
AsListed(t) ==
    [symbol |-> t.symbol, address |-> t.address, decimals |-> t.decimals, name |-> t.name]

\* The metrics request for this address was answered with a JSON object.
MetricsFetched(address) ==
    address \in DOMAIN metricsResponse /\ metricsResponse[address].kind = "object"

\* The answer carries no usable liquidityUSD: the field is missing or zero, so
\* volume24h / liquidityUSD is no finite number.
NoLiquidity(address) ==
    ~Truthy(metricsResponse[address].liquidityUSD)

\* C14: every token the tool invokes executeTrade for comes from the catalog
\* list, had its metrics fetched, and has liquidityUSD >= 25000, volume24h >=
\* 15000 and priceChange24h < 0; a token without liquidity or with a failed
\* metrics fetch is never traded.
C14_OnlyVettedTokensAreTraded ==
    /\ toolIdx <= Len(toolProfitable)
    /\ trPc # "idle" => (toolIdx >= 1 /\ trToken = toolProfitable[toolIdx])
    /\ \A k \in 1..toolIdx :
          LET t == toolProfitable[k]
              served == metricsResponse[t.address]
          IN  /\ AsListed(t) \in Range(catResult)
              /\ MetricsFetched(t.address)
              /\ ~NoLiquidity(t.address)
              /\ AtLeast(served.liquidityUSD, 25000)
              /\ AtLeast(served.volume24h, 15000)
              /\ Below(served.priceChange24h, 0)
              /\ t.metrics.liquidityUSD = served.liquidityUSD
              /\ t.metrics.volume24h = served.volume24h
              /\ t.metrics.priceChange24h = served.priceChange24h
    /\ \A k \in 1..Len(swaps) : swaps[k].token \in Range(toolProfitable)

\* The tool traded a token and returned, while the catalog also listed a
\* token without liquidity and one whose metrics fetch failed, neither traded.
C14_Witness ==
    /\ toolPc = "returned"
    /\ swaps # <<>>
    /\ \E i, j \in 1..Len(catResult) :
          /\ ~MetricsFetched(catResult[i].address)
          /\ MetricsFetched(catResult[j].address) /\ NoLiquidity(catResult[j].address)
          /\ \A k \in 1..Len(swaps) :
                swaps[k].token.address \notin {catResult[i].address, catResult[j].address}

====
